---- MODULE Spec2Model ----
(***************************************************************************)
(* Model of internal/driver/cluster/cluster.go: the registry of cluster    *)
(* connections (type cluster) with its operations Insert, Update, Remove,   *)
(* Get, Pessimize, Close and SetExplorer, run by concurrent goroutines      *)
(* under the registry's sync.RWMutex, the helper await, and DiffEndpoints   *)
(* with compareEndpoints and diffslice.                                     *)
(*                                                                         *)
(* Granularity: taking the lock is one step; the code a goroutine runs      *)
(* while it holds the lock, up to and including the unlock, is one step;    *)
(* every piece of code run outside the lock (building a connection,        *)
(* closing a connection, closing the gate) is a step of its own.            *)
(* A panic ends the call with the outcome "panic" after running the         *)
(* deferred functions registered so far.                                    *)
(***************************************************************************)
EXTENDS Integers, FiniteSets, Sequences, TLC

\* ------------------------------------------------------------- bounds
NumProcs == 2
MaxNode == 2
MaxConns == 2
MaxCalls == 5
MaxLoadFactor == 0

Procs == 1..NumProcs
NodeIDs == 1..MaxNode
ConnIDs == 1..MaxConns
LoadFactors == 0..MaxLoadFactor

IDBits == 3          \* the bits of a NodeID, scaled down from 32
DiffMaxLen == 2      \* the longest list handed to DiffEndpoints

\* ------------------------------------------------------------- values
NilConn == 0
NilHandle == 0
NilWait == 0
NoHint == 0

\* endpoint.Endpoint as far as the registry reads it: NodeID, LoadFactor, Local.
\* The endpoints callers pass: per node, one remote endpoint of each load and
\* the local endpoint of load 0.
Endpoints ==
    [ID : NodeIDs, LoadFactor : LoadFactors, Local : {FALSE}]
        \cup [ID : NodeIDs, LoadFactor : {0}, Local : {TRUE}]

\* info.Info{LoadFactor: endpoint.LoadFactor, Local: endpoint.Local}
InfoOf(e) == [LoadFactor |-> e.LoadFactor, Local |-> e.Local]

\* The endpoint of node n for the calls that read only endpoint.NodeID().
EndpointOf(n) == [ID |-> n, LoadFactor |-> 0, Local |-> FALSE]

\* conn.New(...): the health state of a connection just built.
NewConnState == "Online"

NoArg == [kind |-> "none"]
NoLoc == [conn |-> NilConn]
NoRes == [kind |-> "none", conn |-> NilConn, next |-> "none", events |-> 0]

VARIABLES
    closed,       \* c.closed
    index,        \* c.index: NodeID -> entry.Entry (<<>> also stands for nil)
    ready,        \* c.ready
    wait,         \* c.wait: a gate, or NilWait
    explorer,     \* c.explorer # nil
    writer,       \* c.mu: the goroutine holding it exclusively, or 0
    readers,      \* c.mu: the goroutines holding it shared
    bal,          \* the balancer's registrations: Handle -> [Conn, Info]
    connState,    \* Conn: Runtime().GetState()
    closeCnt,     \* Conn: how many times Close(ctx) was invoked on it
    gates,        \* gate -> how many times it was closed
    stopCalls,    \* how many times explorer.Stop() was invoked
    forceCalls,   \* how many times explorer.Force() was invoked
    nilHandleUse, \* the balancer's Update or Remove was invoked with a nil Handle
    nextConn,     \* the next connection conn.New builds
    calls,        \* calls started so far
    pc,           \* per goroutine: its position
    arg,          \* per goroutine: the call it runs and its arguments
    loc,          \* per goroutine: the call's local variables
    res,          \* per goroutine: what the call has returned and done
    wgDone,       \* per goroutine: Done() invocations on the call's wait group
    limits,       \* what the callers pass and how many calls they make
    diff          \* a run of DiffEndpoints: its arguments, counters and calls

regVars == <<closed, index, ready, wait, explorer>>
lockVars == <<writer, readers>>
balVars == <<bal, nilHandleUse>>
connVars == <<connState, closeCnt, nextConn>>
trigVars == <<stopCalls, forceCalls>>
procVars == <<pc, arg, loc, res>>
fixVars == <<limits, diff>>
auxVars == <<fixVars, wgDone>>
vars == <<regVars, lockVars, balVars, connVars, trigVars, gates, calls, procVars,
          auxVars>>

\* The callers of the registry: the nodes and endpoints they name, whether
\* they pass a wait group (WithWG), the number of connections they build and
\* of calls they make at most.
MainLimits ==
    [nodes |-> NodeIDs, endpoints |-> Endpoints, wg |-> BOOLEAN,
     conns |-> MaxConns, calls |-> MaxCalls]

\* No run of DiffEndpoints.
NoDiff == [pc |-> "none"]

\* New(trace, dial, balancer): an empty index, no explorer, not closed; the
\* callers are those of l.
RegistryInit(l) ==
    /\ limits = l
    /\ wgDone = [p \in Procs |-> 0]
    /\ closed = FALSE
    /\ index = <<>>
    /\ ready = 0
    /\ wait = NilWait
    /\ explorer = FALSE
    /\ writer = 0
    /\ readers = {}
    /\ bal = <<>>
    /\ connState = [c \in 1..l.conns |-> NewConnState]
    /\ closeCnt = [c \in 1..l.conns |-> 0]
    /\ gates = <<>>
    /\ stopCalls = 0
    /\ forceCalls = 0
    /\ nilHandleUse = FALSE
    /\ nextConn = 1
    /\ calls = 0
    /\ pc = [p \in Procs |-> "idle"]
    /\ arg = [p \in Procs |-> NoArg]
    /\ loc = [p \in Procs |-> NoLoc]
    /\ res = [p \in Procs |-> NoRes]

Init == RegistryInit(MainLimits) /\ diff = NoDiff

\* ------------------------------------------------------------- helpers
Has(n) == n \in DOMAIN index

\* A function with one more mapping / with one mapping less.
Put(f, k, v) == [x \in DOMAIN f \cup {k} |-> IF x = k THEN v ELSE f[x]]
Del(f, k) == [x \in DOMAIN f \ {k} |-> f[x]]

\* c.mu.Lock(): no goroutine holds the lock in either mode.
Lock(p) ==
    /\ writer = 0
    /\ readers = {}
    /\ writer' = p
    /\ UNCHANGED readers

\* c.mu.Unlock() left out: the goroutine goes on holding the lock.
Unlock_Never(p) ==
    /\ writer = p
    /\ UNCHANGED lockVars

\* c.mu.Unlock()
Unlock(p) ==
    /\ writer = p
    /\ writer' = 0
    /\ UNCHANGED readers

\* c.mu.RLock(): no goroutine holds the lock exclusively.
RLock(p) ==
    /\ writer = 0
    /\ readers' = readers \cup {p}
    /\ UNCHANGED writer

\* c.mu.RUnlock()
RUnlock(p) ==
    /\ p \in readers
    /\ readers' = readers \ {p}
    /\ UNCHANGED writer

\* close(wait), when wait is a gate.
CloseGate(w) == IF w = NilWait THEN gates ELSE [gates EXCEPT ![w] = @ + 1]

\* A caller starts a call: the bound on calls, and the call's arguments.
Start(p, a, to) ==
    /\ pc[p] = "idle"
    /\ calls < limits.calls
    /\ calls' = calls + 1
    /\ UNCHANGED auxVars
    /\ arg' = [arg EXCEPT ![p] = a]
    /\ pc' = [pc EXCEPT ![p] = to]

\* holder.wg.Done() never runs.
WgDone_Never(p) == wgDone

\* The deferred holder.wg.Done() of Insert, Update and Remove: it runs when the
\* call returns or panics, if the caller passed a wait group.
WgDone(p) ==
    IF arg[p].wg THEN [wgDone EXCEPT ![p] = @ + 1] ELSE wgDone

\* The call returns (or panics) with outcome r.
Finish(p, r) ==
    /\ res' = [res EXCEPT ![p] = r]
    /\ pc' = [pc EXCEPT ![p] = "done"]

\* The caller takes the outcome; the goroutine is free for its next call.
Return(p) ==
    /\ pc[p] = "done"
    /\ pc' = [pc EXCEPT ![p] = "idle"]
    /\ arg' = [arg EXCEPT ![p] = NoArg]
    /\ loc' = [loc EXCEPT ![p] = NoLoc]
    /\ res' = [res EXCEPT ![p] = NoRes]
    /\ wgDone' = [wgDone EXCEPT ![p] = 0]
    /\ UNCHANGED <<regVars, lockVars, balVars, connVars, trigVars, gates, calls, fixVars>>

\* ------------------------------------------------------------- balancer port
\* balancer.Insert(conn, info): a fresh Handle. Every Insert registers a
\* connection of its own, so the connection's number serves as the token.
BalancerInsert(b, c, info) == Put(b, c, [Conn |-> c, Info |-> info])

\* balancer.Update(handle, info)
BalancerUpdate(b, h, info) ==
    IF h \in DOMAIN b THEN [b EXCEPT ![h].Info = info] ELSE b

\* balancer.Remove(handle)
BalancerRemove(b, h) == Del(b, h)

\* balancer.Contains(handle)
BalancerContains(b, h) == h \in DOMAIN b

\* balancer.Next(): a registered connection, or nil; the policy is the balancer's.
BalancerNext(b) == {b[h].Conn : h \in DOMAIN b} \cup {NilConn}

\* ------------------------------------------------------------- entry.Entry
\* entry.InsertInto(balancer): Handle = balancer.Insert(Conn, Info).
EntryInsertInto(ent) == [ent EXCEPT !.Handle = ent.Conn]

\* ------------------------------------------------------------- Insert
\* Insert, before the lock: conn.New(ctx, endpoint, c.dial, holder.connConfig).
InsertNew(p) ==
    \E e \in limits.endpoints, w \in limits.wg :
        /\ nextConn <= limits.conns
        /\ Start(p, [kind |-> "Insert", ep |-> e, wg |-> w], "ins_lock")
        /\ loc' = [loc EXCEPT ![p] = [conn |-> nextConn]]
        /\ nextConn' = nextConn + 1
        /\ UNCHANGED <<regVars, lockVars, balVars, connState, closeCnt,
                       trigVars, gates, res>>

InsertLock(p) ==
    /\ pc[p] = "ins_lock"
    /\ Lock(p)
    /\ pc' = [pc EXCEPT ![p] = "ins_body"]
    /\ UNCHANGED <<regVars, balVars, connVars, trigVars, gates, calls, auxVars,
                   arg, loc, res>>

\* entry := entry.Entry{Info: info.Info{...}}; entry.Conn = conn
NewEntry(e, c) == [Info |-> InfoOf(e), Conn |-> c, Handle |-> NilHandle]

\* InsertStore without c.ready++.
InsertStore_NoReady(e, c) ==
    LET ent == EntryInsertInto(NewEntry(e, c))
    IN  /\ bal' = BalancerInsert(bal, ent.Conn, ent.Info)
        /\ ready' = ready
        /\ gates' = CloseGate(wait)
        /\ wait' = NilWait
        /\ index' = Put(index, e.ID, ent)

\* Insert under the lock, once c.closed and the duplicate are ruled out:
\* the registry and the balancer after lines 200-206.
InsertStore(e, c) ==
    LET ent == EntryInsertInto(NewEntry(e, c))
    IN  /\ bal' = BalancerInsert(bal, ent.Conn, ent.Info)
        /\ ready' = ready + 1
        /\ gates' = CloseGate(wait)
        /\ wait' = NilWait
        /\ index' = Put(index, e.ID, ent)

\* InsertOutcome without the test of the index for the NodeID.
InsertOutcome_NoDuplicateCheck(n) ==
    IF closed THEN "noop" ELSE "ok"

\* How Insert goes on under the lock: it returns at once on a closed registry
\* ("noop"), panics on a NodeID the index has, otherwise inserts ("ok").
InsertOutcome(n) ==
    IF closed THEN "noop" ELSE IF Has(n) THEN "panic" ELSE "ok"

\* Insert, under the lock, to the deferred c.mu.Unlock().
InsertBody(p) ==
    /\ pc[p] = "ins_body"
    /\ Unlock(p)
    /\ Finish(p, [NoRes EXCEPT !.kind = InsertOutcome(arg[p].ep.ID)])
    /\ IF InsertOutcome(arg[p].ep.ID) = "ok"
       THEN /\ InsertStore(arg[p].ep, loc[p].conn)
            /\ UNCHANGED <<closed, explorer, nilHandleUse>>
       ELSE UNCHANGED <<regVars, balVars, gates>>
    /\ wgDone' = WgDone(p)
    /\ UNCHANGED <<connVars, trigVars, calls, fixVars, arg, loc>>

Insert(p) == InsertNew(p) \/ InsertLock(p) \/ InsertBody(p)

\* ------------------------------------------------------------- Update
\* Update, to c.mu.Lock().
UpdateLock(p) ==
    \E e \in limits.endpoints, w \in limits.wg :
        /\ Start(p, [kind |-> "Update", ep |-> e, wg |-> w], "upd_body")
        /\ Lock(p)
        /\ UNCHANGED <<regVars, balVars, connVars, trigVars, gates, loc, res>>

\* UpdateStore that sets the LoadFactor of the Info alone.
UpdateStore_LoadFactorOnly(e) ==
    LET ent == [index[e.ID] EXCEPT !.Info.LoadFactor = e.LoadFactor]
    IN  /\ connState' = [connState EXCEPT ![ent.Conn] = "Online"]
        /\ index' = [index EXCEPT ![e.ID] = ent]
        /\ IF ent.Handle # NilHandle
           THEN bal' = BalancerUpdate(bal, ent.Handle, ent.Info)
           ELSE UNCHANGED bal
        /\ UNCHANGED nilHandleUse

\* Update under the lock, once the entry is found with a connection:
\* the registry, the connection and the balancer after lines 238-244.
UpdateStore(e) ==
    LET ent == [index[e.ID] EXCEPT !.Info = InfoOf(e)]
    IN  /\ connState' = [connState EXCEPT ![ent.Conn] = "Online"]
        /\ index' = [index EXCEPT ![e.ID] = ent]
        /\ IF ent.Handle # NilHandle
           THEN bal' = BalancerUpdate(bal, ent.Handle, ent.Info)
           ELSE UNCHANGED bal
        /\ UNCHANGED nilHandleUse

\* How Update goes on under the lock: it returns at once on a closed registry
\* ("noop"), panics on a NodeID the index lacks and on an entry with a nil
\* connection, otherwise updates ("ok").
UpdateOutcome(n) ==
    IF closed THEN "noop"
    ELSE IF ~Has(n) THEN "panic"
    ELSE IF index[n].Conn = NilConn THEN "panic"
    ELSE "ok"

\* Update, under the lock, to the deferred c.mu.Unlock().
UpdateBody(p) ==
    /\ pc[p] = "upd_body"
    /\ Unlock(p)
    /\ Finish(p, [NoRes EXCEPT !.kind = UpdateOutcome(arg[p].ep.ID)])
    /\ IF UpdateOutcome(arg[p].ep.ID) = "ok"
       THEN UpdateStore(arg[p].ep)
       ELSE UNCHANGED <<index, balVars, connState>>
    /\ wgDone' = WgDone(p)
    /\ UNCHANGED <<closed, ready, wait, explorer, closeCnt, nextConn,
                   trigVars, gates, calls, fixVars, arg, loc>>

Update(p) == UpdateLock(p) \/ UpdateBody(p)

\* ------------------------------------------------------------- Remove
\* Remove, to c.mu.Lock().
RemoveLock(p) ==
    \E n \in limits.nodes, w \in limits.wg :
        /\ Start(p, [kind |-> "Remove", ep |-> EndpointOf(n), wg |-> w], "rem_body")
        /\ Lock(p)
        /\ UNCHANGED <<regVars, balVars, connVars, trigVars, gates, loc, res>>

\* RemoveStore without delete(c.index, endpoint.NodeID()).
RemoveStore_KeepsEntry(e) ==
    LET ent == index[e.ID]
    IN  /\ bal' = BalancerRemove(bal, ent.Handle)
        /\ nilHandleUse' = (nilHandleUse \/ ent.Handle = NilHandle)
        /\ ready' = ready - 1
        /\ index' = index

\* RemoveStore without entry.RemoveFrom(c.balancer).
RemoveStore_KeepsRegistration(e) ==
    /\ bal' = bal
    /\ nilHandleUse' = nilHandleUse
    /\ ready' = ready - 1
    /\ index' = Del(index, e.ID)

\* Remove under the lock, once the entry is found: the registry and the
\* balancer after lines 271-273. entry.RemoveFrom(c.balancer) hands the
\* entry's Handle to balancer.Remove.
RemoveStore(e) ==
    LET ent == index[e.ID]
    IN  /\ bal' = BalancerRemove(bal, ent.Handle)
        /\ nilHandleUse' = (nilHandleUse \/ ent.Handle = NilHandle)
        /\ ready' = ready - 1
        /\ index' = Del(index, e.ID)

\* RemoveOutcome without the test of c.closed.
RemoveOutcome_NoClosedCheck(n) ==
    IF ~Has(n) THEN "panic" ELSE "ok"

\* How Remove goes on under the lock: it returns at once on a closed registry
\* ("noop"), panics on a NodeID the index lacks, otherwise removes ("ok").
RemoveOutcome(n) ==
    IF closed THEN "noop" ELSE IF ~Has(n) THEN "panic" ELSE "ok"

\* Remove, under the lock, to c.mu.Unlock(); the entry stays in the local
\* variable, its connection still open.
RemoveBody(p) ==
    /\ pc[p] = "rem_body"
    /\ Unlock(p)
    /\ IF RemoveOutcome(arg[p].ep.ID) # "ok"
       THEN /\ Finish(p, [NoRes EXCEPT !.kind = RemoveOutcome(arg[p].ep.ID)])
            /\ wgDone' = WgDone(p)
            /\ UNCHANGED <<index, ready, balVars, loc>>
       ELSE /\ RemoveStore(arg[p].ep)
            /\ loc' = [loc EXCEPT ![p] = [conn |-> index[arg[p].ep.ID].Conn]]
            /\ pc' = [pc EXCEPT ![p] = "rem_close"]
            /\ UNCHANGED <<res, wgDone>>
    /\ UNCHANGED <<closed, wait, explorer, connVars, trigVars, gates, calls, fixVars, arg>>

\* Remove, after the lock: entry.Conn.Close(ctx) when there is a connection.
RemoveClose(p) ==
    /\ pc[p] = "rem_close"
    /\ IF loc[p].conn # NilConn
       THEN closeCnt' = [closeCnt EXCEPT ![loc[p].conn] = @ + 1]
       ELSE UNCHANGED closeCnt
    /\ Finish(p, [NoRes EXCEPT !.kind = "ok"])
    /\ wgDone' = WgDone(p)
    /\ UNCHANGED <<regVars, lockVars, balVars, connState, nextConn, trigVars,
                   gates, calls, fixVars, arg, loc>>

Remove(p) == RemoveLock(p) \/ RemoveBody(p) \/ RemoveClose(p)

\* ------------------------------------------------------------- Close
\* Close, to c.mu.Lock().
CloseLock(p) ==
    /\ Start(p, [kind |-> "Close"], "cls_body")
    /\ Lock(p)
    /\ UNCHANGED <<regVars, balVars, connVars, trigVars, gates, loc, res>>

\* Close, under the lock, to c.mu.Unlock(): a closed registry is left alone;
\* otherwise the explorer is stopped, and the gate and the index are detached
\* into the local variables.
CloseBody(p) ==
    /\ pc[p] = "cls_body"
    /\ Unlock(p)
    /\ IF closed
       THEN /\ Finish(p, [NoRes EXCEPT !.kind = "noop"])
            /\ UNCHANGED <<regVars, stopCalls, loc>>
       ELSE /\ stopCalls' = IF explorer THEN stopCalls + 1 ELSE stopCalls
            /\ closed' = TRUE
            /\ loc' = [loc EXCEPT ![p] =
                          [wait |-> wait, index |-> index, left |-> DOMAIN index]]
            /\ wait' = NilWait
            /\ index' = <<>>
            /\ pc' = [pc EXCEPT ![p] = "cls_wait"]
            /\ UNCHANGED <<ready, explorer, res>>
    /\ UNCHANGED <<balVars, connVars, forceCalls, gates, calls, auxVars, arg>>

\* Close, after the lock: close(wait) when there is a gate; with no entry
\* to range over, Close returns.
CloseWait(p) ==
    /\ pc[p] = "cls_wait"
    /\ gates' = CloseGate(loc[p].wait)
    /\ IF loc[p].left = {}
       THEN Finish(p, [NoRes EXCEPT !.kind = "ok"])
       ELSE /\ pc' = [pc EXCEPT ![p] = "cls_conns"]
            /\ UNCHANGED res
    /\ UNCHANGED <<regVars, lockVars, balVars, connVars, trigVars, calls, auxVars, arg, loc>>

\* Close, after the lock: one round of the range over the detached index,
\* entry.Conn.Close(ctx) when the entry has a connection; Close returns
\* after the last round.
CloseConn(p) ==
    /\ pc[p] = "cls_conns"
    /\ \E n \in loc[p].left :
        LET c == loc[p].index[n].Conn
        IN  /\ IF c # NilConn
               THEN closeCnt' = [closeCnt EXCEPT ![c] = @ + 1]
               ELSE UNCHANGED closeCnt
            /\ loc' = [loc EXCEPT ![p].left = @ \ {n}]
            /\ IF loc[p].left = {n}
               THEN Finish(p, [NoRes EXCEPT !.kind = "ok"])
               ELSE UNCHANGED <<pc, res>>
    /\ UNCHANGED <<regVars, lockVars, balVars, connState, nextConn, trigVars,
                   gates, calls, auxVars, arg>>

Close(p) == CloseLock(p) \/ CloseBody(p) \/ CloseWait(p) \/ CloseConn(p)

\* ------------------------------------------------------------- Get
\* Get, to c.mu.RLock(); the context carries a node-affinity hint or none.
GetRLock(p) ==
    \E h \in limits.nodes \cup {NoHint} :
        /\ Start(p, [kind |-> "Get", hint |-> h], "get_body")
        /\ RLock(p)
        /\ UNCHANGED <<regVars, balVars, connVars, trigVars, gates, loc, res>>

\* GetResult without the test of c.closed.
GetResult_NoClosedCheck(h, nxt) ==
    IF h # NoHint /\ Has(h)
    THEN [kind |-> "ok", conn |-> index[h].Conn, next |-> "none", events |-> 0]
    ELSE IF nxt = NilConn
    THEN [kind |-> "panic", conn |-> NilConn, next |-> "nil", events |-> 0]
    ELSE [kind |-> "ok", conn |-> nxt, next |-> "conn", events |-> 1]

\* GetResult asking the balancer before it looks at the hint.
GetResult_BalancerFirst(h, nxt) ==
    IF closed
    THEN [kind |-> "ErrClusterClosed", conn |-> NilConn, next |-> "none", events |-> 0]
    ELSE IF nxt # NilConn
    THEN [kind |-> "ok", conn |-> nxt, next |-> "conn", events |-> 1]
    ELSE IF h # NoHint /\ Has(h)
    THEN [kind |-> "ok", conn |-> index[h].Conn, next |-> "nil", events |-> 0]
    ELSE [kind |-> "panic", conn |-> NilConn, next |-> "nil", events |-> 0]

\* What Get returns and does, with hint h in the context and nxt what
\* c.balancer.Next() yields if Get comes to invoke it: kind is the error
\* returned ("ok" for nil, "panic" when Get does not return), conn the
\* connection returned, next what Next() gave ("none": not invoked), events
\* how many times onDone was invoked.
GetResult(h, nxt) ==
    IF closed
    THEN [kind |-> "ErrClusterClosed", conn |-> NilConn, next |-> "none", events |-> 0]
    ELSE IF h # NoHint /\ Has(h)
    THEN [kind |-> "ok", conn |-> index[h].Conn, next |-> "none", events |-> 0]
    ELSE IF nxt = NilConn
    THEN \* err = ErrClusterEmpty; conn.Endpoint() on the nil conn panics
         [kind |-> "panic", conn |-> NilConn, next |-> "nil", events |-> 0]
    ELSE [kind |-> "ok", conn |-> nxt, next |-> "conn", events |-> 1]

\* Get, under the shared lock, to the deferred c.mu.RUnlock().
GetBody(p) ==
    /\ pc[p] = "get_body"
    /\ RUnlock(p)
    /\ \E nxt \in BalancerNext(bal) : Finish(p, GetResult(arg[p].hint, nxt))
    /\ UNCHANGED <<regVars, balVars, connVars, trigVars, gates, calls, auxVars, arg, loc>>

Get(p) == GetRLock(p) \/ GetBody(p)

\* ------------------------------------------------------------- Pessimize
\* Pessimize, to c.mu.RLock().
PessimizeRLock(p) ==
    \E n \in limits.nodes :
        /\ Start(p, [kind |-> "Pessimize", ep |-> EndpointOf(n)], "pes_body")
        /\ RLock(p)
        /\ UNCHANGED <<regVars, balVars, connVars, trigVars, gates, loc, res>>

\* PessimizeError looking the endpoint up before it tests c.closed.
PessimizeError_IndexFirst(n) ==
    IF ~Has(n) THEN "ErrUnknownEndpoint"
    ELSE IF closed THEN "ErrClusterClosed"
    ELSE IF index[n].Handle = NilHandle THEN "ErrNilBalancerElement"
    ELSE IF ~BalancerContains(bal, index[n].Handle) THEN "ErrUnknownBalancerElement"
    ELSE "nil"

\* The error Pessimize(endpoint of node n) fails with, "nil" when it goes on.
PessimizeError(n) ==
    IF closed THEN "ErrClusterClosed"
    ELSE IF ~Has(n) THEN "ErrUnknownEndpoint"
    ELSE IF index[n].Handle = NilHandle THEN "ErrNilBalancerElement"
    ELSE IF ~BalancerContains(bal, index[n].Handle) THEN "ErrUnknownBalancerElement"
    ELSE "nil"

\* Pessimize, under the shared lock, to SetState(..., state.Banned): a
\* failing call returns; with no explorer the call returns after SetState.
PessimizeBody(p) ==
    /\ pc[p] = "pes_body"
    /\ LET n == arg[p].ep.ID
           err == PessimizeError(n)
       IN  IF err # "nil"
           THEN /\ Finish(p, [NoRes EXCEPT !.kind = err])
                /\ RUnlock(p)
                /\ UNCHANGED connState
           ELSE /\ connState' = [connState EXCEPT ![index[n].Conn] = "Banned"]
                /\ IF explorer
                   THEN /\ pc' = [pc EXCEPT ![p] = "pes_count"]
                        /\ UNCHANGED <<res, lockVars>>
                   ELSE /\ Finish(p, [NoRes EXCEPT !.kind = "ok"])
                        /\ RUnlock(p)
    /\ UNCHANGED <<regVars, balVars, closeCnt, nextConn, trigVars, gates,
                   calls, auxVars, arg, loc>>

\* The entries of the index whose connection is Online (lines 303-308).
OnlineCount ==
    Cardinality({n \in DOMAIN index :
        index[n].Conn # NilConn /\ connState[index[n].Conn] = "Online"})

\* NeedForce with <= for <.
NeedForce_AtMostHalf(online, total) == online * 2 <= total

\* more than half connections banned - re-discover now (line 310)
NeedForce(online, total) == online * 2 < total

\* Pessimize with an explorer, under the shared lock: the count of the
\* Online entries, c.explorer.Force() when it is too low, and the deferred
\* c.mu.RUnlock(). The range over c.index reads the health states as they
\* are at this step; Pessimize calls of other goroutines, which hold the
\* lock shared too, may have banned connections since this call banned its
\* own.
PessimizeCount(p) ==
    /\ pc[p] = "pes_count"
    /\ RUnlock(p)
    /\ forceCalls' = IF NeedForce(OnlineCount, Cardinality(DOMAIN index))
                     THEN forceCalls + 1 ELSE forceCalls
    /\ Finish(p, [NoRes EXCEPT !.kind = "ok"])
    /\ UNCHANGED <<regVars, balVars, connVars, stopCalls, gates, calls, auxVars, arg, loc>>

Pessimize(p) == PessimizeRLock(p) \/ PessimizeBody(p) \/ PessimizeCount(p)

\* ------------------------------------------------------------- SetExplorer
\* SetExplorer(repeater): unsynchronized; callers set it once, while no
\* other call runs.
SetExplorer ==
    /\ explorer = FALSE
    /\ \A p \in Procs : pc[p] = "idle"
    /\ explorer' = TRUE
    /\ UNCHANGED <<closed, index, ready, wait, lockVars, balVars, connVars,
                   trigVars, gates, calls, auxVars, procVars>>

\* ------------------------------------------------------------- system
Call(p) ==
    \/ Insert(p)
    \/ Update(p)
    \/ Remove(p)
    \/ Close(p)
    \/ Get(p)
    \/ Pessimize(p)
    \/ Return(p)

Next == SetExplorer \/ \E p \in Procs : Call(p)

Spec == Init /\ [][Next]_vars

\* ------------------------------------------------------------- scenario
\* The callers of the scenario of four nodes: four Inserts of distinct
\* NodeIDs, then three Pessimizes of distinct nodes, one after the other;
\* no wait group.
ScenarioLimits ==
    [nodes |-> 1..4, endpoints |-> {EndpointOf(n) : n \in 1..4},
     wg |-> {FALSE}, conns |-> 4, calls |-> 7]

ScenarioInit == RegistryInit(ScenarioLimits) /\ diff = NoDiff

\* The number of entries whose connection is Banned.
BannedCount ==
    Cardinality({n \in DOMAIN index : connState[index[n].Conn] = "Banned"})

\* Insert of a NodeID that no Insert of the scenario has named.
ScenarioInsert(p) ==
    /\ InsertNew(p)
    /\ ~Has(arg'[p].ep.ID)
    /\ \A q \in Procs : arg[q].kind = "Insert" => arg[q].ep.ID # arg'[p].ep.ID

\* Pessimize of a node not yet pessimized, once the trigger is set, the
\* four nodes are in and the call before has returned.
ScenarioPessimize(p) ==
    /\ explorer
    /\ Cardinality(DOMAIN index) = 4
    /\ \A q \in Procs : pc[q] = "idle"
    /\ PessimizeRLock(p)
    /\ connState[index[arg'[p].ep.ID].Conn] = "Online"

ScenarioCall(p) ==
    \/ ScenarioInsert(p) \/ InsertLock(p) \/ InsertBody(p)
    \/ ScenarioPessimize(p) \/ PessimizeBody(p) \/ PessimizeCount(p)
    \/ Return(p)

ScenarioNext == SetExplorer \/ \E p \in Procs : ScenarioCall(p)

ScenarioSpec == ScenarioInit /\ [][ScenarioNext]_vars

\* ------------------------------------------------------------- await
\* await(), called with the read lock held: prev := c.wait; the closure it
\* returns is called next.
AwaitCall(p) ==
    /\ writer = 0
    /\ Start(p, [kind |-> "Await"], "aw_read")
    /\ loc' = [loc EXCEPT ![p] = [prev |-> wait, gate |-> NilWait]]
    /\ UNCHANGED <<regVars, lockVars, balVars, connVars, trigVars, gates, res>>

\* The closure of await: c.mu.RLock(); wait := c.wait; c.mu.RUnlock(); it
\* returns wait if that is not prev.
AwaitRead(p) ==
    /\ pc[p] = "aw_read"
    /\ writer = 0
    /\ IF wait # loc[p].prev
       THEN /\ Finish(p, [NoRes EXCEPT !.kind = "ok"])
            /\ loc' = [loc EXCEPT ![p].gate = wait]
       ELSE /\ pc' = [pc EXCEPT ![p] = "aw_lock"]
            /\ UNCHANGED <<loc, res>>
    /\ UNCHANGED <<regVars, lockVars, balVars, connVars, trigVars, gates, calls,
                   auxVars, arg>>

\* The closure of await: c.mu.Lock().
AwaitLock(p) ==
    /\ pc[p] = "aw_lock"
    /\ Lock(p)
    /\ pc' = [pc EXCEPT ![p] = "aw_body"]
    /\ UNCHANGED <<regVars, balVars, connVars, trigVars, gates, calls, auxVars,
                   arg, loc, res>>

\* make(chan struct{}): a gate no goroutine has seen, open.
NewGate == Cardinality(DOMAIN gates) + 1

\* The closure of await, under the lock: it returns c.wait if that is not
\* prev; otherwise it makes a gate, stores it in c.wait and returns it.
AwaitBody(p) ==
    /\ pc[p] = "aw_body"
    /\ Unlock(p)
    /\ Finish(p, [NoRes EXCEPT !.kind = "ok"])
    /\ IF wait # loc[p].prev
       THEN /\ loc' = [loc EXCEPT ![p].gate = wait]
            /\ UNCHANGED <<wait, gates>>
       ELSE /\ gates' = Put(gates, NewGate, 0)
            /\ wait' = NewGate
            /\ loc' = [loc EXCEPT ![p].gate = NewGate]
    /\ UNCHANGED <<closed, index, ready, explorer, balVars, connVars, trigVars,
                   calls, auxVars, arg>>

Await(p) == AwaitCall(p) \/ AwaitRead(p) \/ AwaitLock(p) \/ AwaitBody(p)

\* The callers of await, Insert and Close: two nodes, no wait group.
GateLimits ==
    [nodes |-> NodeIDs, endpoints |-> {EndpointOf(n) : n \in NodeIDs},
     wg |-> {FALSE}, conns |-> MaxConns, calls |-> MaxCalls]

GateInit == RegistryInit(GateLimits) /\ diff = NoDiff

GateCall(p) == Await(p) \/ Insert(p) \/ Close(p) \/ Return(p)

GateNext == \E p \in Procs : GateCall(p)

GateSpec == GateInit /\ [][GateNext]_vars

\* ------------------------------------------------------------- DiffEndpoints
\* The widths of the integer types, on the scale of IDBits for the 32 bits
\* of a NodeID: int64 has twice the bits of a NodeID; int has the bits of a
\* NodeID on a 32-bit build and those of int64 on a 64-bit build.
Int64Bits == 2 * IDBits
IntBitsOf == {IDBits, Int64Bits}

\* The NodeIDs an endpoint can carry: the unsigned values of IDBits bits.
UintIDs == 0..(2^IDBits - 1)

\* Conversion to a signed integer of that many bits: the low bits, read in
\* two's complement.
Wrap(x, bits) ==
    LET r == x % (2^bits)
    IN  IF r >= 2^(bits - 1) THEN r - 2^bits ELSE r

\* int64(x) and the int64 subtraction.
ToInt64(x) == Wrap(x, Int64Bits)

\* int(x), on the build of the run.
ToInt(x) == Wrap(x, diff.intBits)

\* compareEndpoints(a, b): int(int64(a.ID) - int64(b.ID))
compareEndpoints(a, b) == ToInt(ToInt64(ToInt64(a.ID) - ToInt64(b.ID)))

\* The lists of at most DiffMaxLen endpoints, strictly ascending by NodeID,
\* as SortEndpoints leaves a list of distinct nodes.
RECURSIVE AscendingFrom(_, _)
AscendingFrom(lo, len) ==
    IF len = 0 THEN {<<>>}
    ELSE {<<>>} \cup
         UNION {{<<EndpointOf(n)>> \o t : t \in AscendingFrom(n + 1, len - 1)} :
                n \in {m \in UintIDs : m >= lo}}

SortedLists == AscendingFrom(0, DiffMaxLen)

\* The variables of the registry and its callers, which a run of
\* DiffEndpoints leaves alone.
callVars ==
    <<regVars, lockVars, balVars, connVars, trigVars, gates, calls, procVars,
      wgDone, limits>>

\* DiffEndpoints(curr, next, eq, add, del) is called, on a 32-bit or a
\* 64-bit build; diffslice starts with i = j = 0 and none of eq, add, del
\* called.
DiffInit ==
    /\ RegistryInit(MainLimits)
    /\ diff \in [curr : SortedLists, next : SortedLists, intBits : IntBitsOf,
                 i : {0}, j : {0}, events : {<<>>}]

\* cmp(i, j) of DiffEndpoints: compareEndpoints(curr[i], next[j])
cmp(i, j) == compareEndpoints(diff.curr[i + 1], diff.next[j + 1])

\* One call of eq, add or del with the indices (i, j).
Emit(f) == Append(diff.events, [f |-> f, i |-> diff.i, j |-> diff.j])

\* diffslice, one round of the loop `for i < a && j < b`.
diffsliceLoop ==
    /\ diff.i < Len(diff.curr)
    /\ diff.j < Len(diff.next)
    /\ diff' =
        IF cmp(diff.i, diff.j) < 0
        THEN [diff EXCEPT !.events = Emit("del"), !.i = @ + 1]
        ELSE IF cmp(diff.i, diff.j) > 0
        THEN [diff EXCEPT !.events = Emit("add"), !.j = @ + 1]
        ELSE [diff EXCEPT !.events = Emit("eq"), !.i = @ + 1, !.j = @ + 1]
    /\ UNCHANGED callVars

\* diffslice, one round of the loop `for ; i < a; i++`.
diffsliceDel ==
    /\ ~(diff.i < Len(diff.curr) /\ diff.j < Len(diff.next))
    /\ diff.i < Len(diff.curr)
    /\ diff' = [diff EXCEPT !.events = Emit("del"), !.i = @ + 1]
    /\ UNCHANGED callVars

\* diffslice, one round of the loop `for ; j < b; j++`.
diffsliceAdd ==
    /\ ~(diff.i < Len(diff.curr))
    /\ diff.j < Len(diff.next)
    /\ diff' = [diff EXCEPT !.events = Emit("add"), !.j = @ + 1]
    /\ UNCHANGED callVars

\* diffslice has returned.
DiffReturned ==
    /\ ~(diff.i < Len(diff.curr))
    /\ ~(diff.j < Len(diff.next))

DiffEndpoints == diffsliceLoop \/ diffsliceDel \/ diffsliceAdd

DiffSpec == DiffInit /\ [][DiffEndpoints]_vars

\* ------------------------------------------------------------- claims
\* Goroutine p takes the step that leaves position at.
Leaves(p, at) == pc[p] = at /\ pc'[p] # at

\* Goroutine p stands at the end of a call of this kind with this outcome.
Ended(p, kind, outcome) ==
    pc[p] = "done" /\ arg[p].kind = kind /\ res[p].kind = outcome

\* The connections of a detached or live index.
ConnsOf(idx) == {idx[n].Conn : n \in DOMAIN idx}

\* C1: the closed flag, once set, is never reset, and every Get and every
\* Pessimize that runs on a closed registry returns ErrClusterClosed (Get
\* with no connection and without asking the balancer), whatever hint the
\* Get carries and whatever the registry held before Close.
C1_ClosedIsFinal ==
    [][/\ closed => closed'
       /\ \A p \in Procs :
            (closed /\ (Leaves(p, "get_body") \/ Leaves(p, "pes_body")))
                => /\ pc'[p] = "done"
                   /\ res'[p] = [NoRes EXCEPT !.kind = "ErrClusterClosed"]
                   /\ UNCHANGED <<connState, forceCalls>>]_vars

\* C1 witness: on a closed registry that was populated, a Get with a hint and
\* a Pessimize have both returned ErrClusterClosed.
C1_Witness ==
    /\ closed
    /\ ready > 0
    /\ \E p, q \in Procs :
        /\ Ended(p, "Get", "ErrClusterClosed")
        /\ arg[p].hint # NoHint
        /\ Ended(q, "Pessimize", "ErrClusterClosed")

\* No connection was closed twice, the explorer was stopped at most once,
\* and a Close that has run to its end has closed every connection of the
\* index it detached exactly once.
CloseOnce ==
    /\ \A c \in ConnIDs : closeCnt[c] <= 1
    /\ stopCalls <= 1
    /\ \A p \in Procs :
        Ended(p, "Close", "ok")
            => \A c \in ConnsOf(loc[p].index) : closeCnt[c] = 1

\* C2: under every interleaving of Close and Remove calls, no connection is
\* closed twice and the first Close closes every connection of the index it
\* detached exactly once; Stop is invoked exactly by the Close that sets the
\* closed flag, and only if an explorer is set; a Close on a closed registry
\* returns nil and changes nothing.
C2_CloseTearsDownOnce ==
    [][/\ CloseOnce'
       /\ stopCalls' = stopCalls + (IF ~closed /\ closed' /\ explorer THEN 1 ELSE 0)
       /\ \A p \in Procs :
            (closed /\ Leaves(p, "cls_body"))
                => /\ pc'[p] = "done"
                   /\ res'[p] = [NoRes EXCEPT !.kind = "noop"]
                   /\ UNCHANGED <<regVars, balVars, connVars, trigVars, gates>>]_vars

\* C2 witness: a Close has closed the connection it detached, a Remove had
\* closed another one before, the explorer was stopped, and a second Close
\* has returned without effect.
C2_Witness ==
    \E p, q \in Procs :
        /\ Ended(p, "Close", "ok")
        /\ ConnsOf(loc[p].index) # {}
        /\ \E c \in ConnIDs \ ConnsOf(loc[p].index) : closeCnt[c] = 1
        /\ stopCalls = 1
        /\ Ended(q, "Close", "noop")

\* C3 (as claimed): a Get on a registry that is not closed, for which the
\* balancer's Next yields no connection, returns ErrClusterEmpty and no
\* connection; it does not abort.
C3_GetEmptyReturns ==
    \A p \in Procs :
        (pc[p] = "done" /\ arg[p].kind = "Get" /\ res[p].next = "nil")
            => res[p].kind = "ErrClusterEmpty" /\ res[p].conn = NilConn

\* C4: on a registry that is not closed, a Get whose hint is a NodeID of the
\* index returns that entry's connection with a nil error and does not
\* invoke the balancer's Next, whatever the connection's health state.
C4_HintBypassesBalancer ==
    [][\A p \in Procs :
        (Leaves(p, "get_body") /\ ~closed /\ arg[p].hint \in DOMAIN index)
            => /\ pc'[p] = "done"
               /\ res'[p].kind = "ok"
               /\ res'[p].conn = index[arg[p].hint].Conn
               /\ res'[p].next = "none"]_vars

\* C4 witness: a Get with a hint has returned a connection that is Banned,
\* without invoking Next.
C4_Witness ==
    \E p \in Procs :
        /\ Ended(p, "Get", "ok")
        /\ arg[p].hint # NoHint
        /\ res[p].next = "none"
        /\ res[p].conn # NilConn
        /\ connState[res[p].conn] = "Banned"

\* C5 (as claimed): every Get on a registry that is not closed invokes its
\* completion callback exactly once before it ends, on every path.
C5_GetEmitsOnce ==
    \A p \in Procs :
        (pc[p] = "done" /\ arg[p].kind = "Get" /\ res[p].kind # "ErrClusterClosed")
            => res[p].events = 1

\* C6: an Insert, Update or Remove that runs on a closed registry returns
\* without a panic and leaves the index, the ready counter, the balancer's
\* registrations, every connection's health state and every connection's
\* close count as they are, and invokes no balancer operation.
C6_ClosedMutationsAreNoOps ==
    [][\A p \in Procs :
        (closed /\ (Leaves(p, "ins_body") \/ Leaves(p, "upd_body")
                        \/ Leaves(p, "rem_body")))
            => /\ pc'[p] = "done"
               /\ res'[p] = [NoRes EXCEPT !.kind = "noop"]
               /\ UNCHANGED <<closed, index, ready, bal, nilHandleUse,
                              connState, closeCnt>>]_vars

\* C6 witness: on a closed registry an Insert and a Remove have both returned
\* as no-ops.
C6_Witness ==
    /\ closed
    /\ \E p, q \in Procs :
        /\ Ended(p, "Insert", "noop")
        /\ Ended(q, "Remove", "noop")

\* C7: while the registry is not closed, the ready counter equals the number
\* of entries of the index in every state; an Insert that inserts raises
\* both by one and a Remove that removes lowers both by one.
C7_ReadyCountsEntries ==
    [][/\ ~closed' => ready' = Cardinality(DOMAIN index')
       /\ \A p \in Procs :
            /\ (Leaves(p, "ins_body") /\ res'[p].kind = "ok")
                => /\ ready' = ready + 1
                   /\ Cardinality(DOMAIN index') = Cardinality(DOMAIN index) + 1
            /\ (Leaves(p, "rem_body") /\ pc'[p] = "rem_close")
                => /\ ready' = ready - 1
                   /\ Cardinality(DOMAIN index') = Cardinality(DOMAIN index) - 1]_vars

\* C7 witness: after two inserts and a remove the registry holds one entry.
C7_Witness ==
    /\ ~closed
    /\ ready = 1
    /\ nextConn > 2
    /\ \E p \in Procs : Ended(p, "Remove", "ok")

PessimizeFails(p, k) ==
    /\ pc'[p] = "done"
    /\ res'[p] = [NoRes EXCEPT !.kind = k]
    /\ UNCHANGED <<connState, forceCalls>>

\* C9: Pessimize fails with ErrClusterClosed on a closed registry, else with
\* ErrUnknownEndpoint for a NodeID the index lacks, else with
\* ErrNilBalancerElement for an entry with a nil Handle, else with
\* ErrUnknownBalancerElement for a Handle the balancer does not contain; a
\* failing Pessimize changes no health state and does not invoke Force.
C9_PessimizeErrors ==
    [][\A p \in Procs :
        Leaves(p, "pes_body") =>
            LET n == arg[p].ep.ID
            IN  /\ closed => PessimizeFails(p, "ErrClusterClosed")
                /\ (~closed /\ n \notin DOMAIN index)
                    => PessimizeFails(p, "ErrUnknownEndpoint")
                /\ (~closed /\ n \in DOMAIN index)
                    => /\ index[n].Handle = NilHandle
                        => PessimizeFails(p, "ErrNilBalancerElement")
                       /\ (index[n].Handle # NilHandle
                            /\ index[n].Handle \notin DOMAIN bal)
                        => PessimizeFails(p, "ErrUnknownBalancerElement")
                       /\ (index[n].Handle # NilHandle
                            /\ index[n].Handle \in DOMAIN bal)
                        => res'[p].kind \in {"none", "ok"}]_vars

\* C9 witness: one Pessimize has failed with ErrUnknownEndpoint on a
\* populated registry, another with ErrClusterClosed after Close.
C9_Witness ==
    \E p, q \in Procs :
        /\ Ended(p, "Pessimize", "ErrUnknownEndpoint")
        /\ ready > 0
        /\ Ended(q, "Pessimize", "ErrClusterClosed")

\* The number of entries of the index whose connection is Online in the
\* state cs of the connections.
OnlineEntries(cs) ==
    Cardinality({n \in DOMAIN index : cs[index[n].Conn] = "Online"})

\* C10: a Pessimize that passes its checks marks the entry's connection
\* Banned; with no explorer it returns without invoking Force; with an
\* explorer it then counts the Online entries, the target being Banned, and
\* invokes Force once if the count times two is less than the number of
\* entries, and not at all otherwise.
C10_PessimizeBansAndForces ==
    [][\A p \in Procs :
        /\ (Leaves(p, "pes_body") /\ ~closed /\ arg[p].ep.ID \in DOMAIN index)
            => /\ connState'[index[arg[p].ep.ID].Conn] = "Banned"
               /\ forceCalls' = forceCalls
               /\ pc'[p] = IF explorer THEN "pes_count" ELSE "done"
        /\ Leaves(p, "pes_count")
            => /\ explorer
               /\ ~closed
               /\ connState[index[arg[p].ep.ID].Conn] = "Banned"
               /\ forceCalls' = forceCalls +
                    (IF OnlineEntries(connState) * 2 < Cardinality(DOMAIN index)
                     THEN 1 ELSE 0)
               /\ pc'[p] = "done"
               /\ res'[p].kind = "ok"]_vars

\* C10 witness: with an explorer and two entries, the first Pessimize left
\* one of two Online and did not invoke Force, the second one did.
C10_Witness ==
    /\ explorer
    /\ Cardinality(DOMAIN index) = 2
    /\ OnlineEntries(connState) = 0
    /\ forceCalls = 1
    /\ \E p \in Procs : Ended(p, "Pessimize", "ok")

\* A call of p that the registry, not closed, must abort: Insert of a NodeID
\* the index has, Update or Remove of a NodeID the index lacks.
Violates(p) ==
    /\ ~closed
    /\ \/ Leaves(p, "ins_body") /\ Has(arg[p].ep.ID)
       \/ Leaves(p, "upd_body") /\ ~Has(arg[p].ep.ID)
       \/ Leaves(p, "rem_body") /\ ~Has(arg[p].ep.ID)

\* C12: on a registry that is not closed, Insert of a NodeID the index has,
\* and Update or Remove of a NodeID the index lacks, panic instead of
\* returning; the step leaves the index, the ready counter and the balancer
\* as they were and releases the lock the call held.
C12_ViolationsPanic ==
    [][\A p \in Procs :
        Violates(p)
            => /\ pc'[p] = "done"
               /\ res'[p].kind = "panic"
               /\ UNCHANGED <<index, ready, bal>>
               /\ writer = p
               /\ writer' = 0
               /\ p \notin readers']_vars

\* C12 witness: with one entry in a registry that is not closed, an Insert
\* and a Remove have both panicked, and the lock is free.
C12_Witness ==
    \E p, q \in Procs :
        /\ Ended(p, "Insert", "panic")
        /\ Ended(q, "Remove", "panic")
        /\ ~closed
        /\ ready = 1
        /\ Cardinality(DOMAIN index) = 1
        /\ writer = 0

\* C13: an Update that finds its NodeID in a registry that is not closed
\* gives the entry the Info of the endpoint, sets the entry's connection
\* Online, and hands the new Info to the balancer when the entry has a
\* Handle, and does not call the balancer otherwise; the entry's Handle and
\* Conn, the ready counter, the other entries and connections stay.
C13_UpdateReplacesInfo ==
    [][\A p \in Procs :
        (Leaves(p, "upd_body") /\ ~closed /\ Has(arg[p].ep.ID))
            => LET n == arg[p].ep.ID
                   old == index[n]
               IN  /\ index' = [index EXCEPT ![n] =
                                  [Info |-> [LoadFactor |-> arg[p].ep.LoadFactor,
                                             Local |-> arg[p].ep.Local],
                                   Conn |-> old.Conn,
                                   Handle |-> old.Handle]]
                   /\ connState' = [connState EXCEPT ![old.Conn] = "Online"]
                   /\ ready' = ready
                   /\ bal' = IF old.Handle # NilHandle
                             THEN [bal EXCEPT ![old.Handle].Info = index'[n].Info]
                             ELSE bal
                   /\ res'[p].kind = "ok"]_vars

\* C13 witness: the one entry, which a Pessimize had marked Banned (Force
\* was invoked for it), is Online after an Update that changed its Info to
\* a local endpoint.
C13_Witness ==
    \E p \in Procs :
        /\ Ended(p, "Update", "ok")
        /\ arg[p].ep.Local
        /\ DOMAIN index = {arg[p].ep.ID}
        /\ index[arg[p].ep.ID].Info.Local
        /\ connState[index[arg[p].ep.ID].Conn] = "Online"
        /\ nextConn = 2
        /\ forceCalls = 1

\* C14: once a Remove of node n has ended and while the index lacks n, a
\* Get does not return the connection the Remove took out, and a Get whose
\* hint is n returns what the balancer selects: a registered connection, or
\* ErrClusterEmpty and no connection when the balancer yields nothing.
C14_RemovedNodeUnreachable ==
    [][\A p, q \in Procs :
        (/\ Ended(q, "Remove", "ok")
         /\ ~Has(arg[q].ep.ID)
         /\ ~closed
         /\ Leaves(p, "get_body"))
            => /\ res'[p].conn # loc[q].conn
               /\ arg[p].hint = arg[q].ep.ID
                    => \/ /\ res'[p].kind = "ok"
                          /\ res'[p].conn \in BalancerNext(bal) \ {NilConn}
                       \/ /\ res'[p].kind = "ErrClusterEmpty"
                          /\ res'[p].conn = NilConn]_vars

\* Goroutine p holds the lock, exclusively or shared, in the state / in the
\* next state.
Holds(p) == writer = p \/ p \in readers
HoldsNext(p) == writer' = p \/ p \in readers'

\* C15: a goroutine that is about to build a connection or to close one (or
\* a gate, in Close) does not hold the lock, and every step that builds a
\* connection (conn.New) or closes one (Conn.Close) is the step of a
\* goroutine that holds the lock neither before nor after it.
C15_NoConnIOUnderLock ==
    [][/\ \A p \in Procs :
            pc[p] \in {"ins_lock", "rem_close", "cls_wait", "cls_conns"}
                => ~Holds(p)
       /\ (closeCnt' # closeCnt \/ nextConn' # nextConn)
            => \E p \in Procs :
                /\ pc'[p] # pc[p] \/ loc'[p] # loc[p]
                /\ ~Holds(p)
                /\ ~HoldsNext(p)]_vars

\* C15 witness: Close, the lock released, has a connection to close, while
\* an Insert, its connection built, holds the lock.
C15_Witness ==
    \E p, q \in Procs :
        /\ pc[p] = "cls_conns"
        /\ loc[p].left # {}
        /\ pc[q] = "ins_body"
        /\ loc[q].conn # NilConn
        /\ writer = q

\* The mutation of p's call, by its outcome r, is in the registry and the
\* balancer of the next state: the inserted entry is stored and registered,
\* the updated entry has the new Info, the removed connection is in neither;
\* a call that is a no-op has seen the registry closed.
MutationDone(p, r) ==
    LET n == arg[p].ep.ID
    IN  /\ (arg[p].kind = "Insert" /\ r = "ok")
            => /\ n \in DOMAIN index'
               /\ index'[n].Conn = loc[p].conn
               /\ BalancerContains(bal', index'[n].Handle)
        /\ (arg[p].kind = "Update" /\ r = "ok")
            => /\ n \in DOMAIN index'
               /\ index'[n].Info = InfoOf(arg[p].ep)
        /\ (arg[p].kind = "Remove" /\ r = "ok")
            => /\ loc[p].conn \notin ConnsOf(index')
               /\ \A h \in DOMAIN bal' : bal'[h].Conn # loc[p].conn
        /\ r = "noop" => closed

\* C16: the wait group of an Insert, Update or Remove is marked done once
\* by the step that ends the call, whatever its outcome, and by no other
\* step; with that step the call's mutation is in the registry and the
\* balancer, or the call has seen the registry closed. A call without a
\* wait group marks nothing.
C16_WgDoneOnce ==
    [][\A p \in Procs :
        /\ pc'[p] \notin {"done", "idle"} => wgDone'[p] = 0
        /\ (pc'[p] = "done" /\ pc[p] = "done") => wgDone'[p] = wgDone[p]
        /\ (pc'[p] = "done" /\ pc[p] # "done")
            => IF arg[p].kind \in {"Insert", "Update", "Remove"} /\ arg[p].wg
               THEN /\ wgDone[p] = 0
                    /\ wgDone'[p] = 1
                    /\ MutationDone(p, res'[p].kind)
               ELSE wgDone'[p] = 0]_vars

\* C16 witness: an Insert that stored its entry and an Update that found
\* the registry closed have both ended, each with its wait group marked
\* done once.
C16_Witness ==
    \E p, q \in Procs :
        /\ Ended(p, "Insert", "ok")
        /\ arg[p].wg
        /\ wgDone[p] = 1
        /\ Ended(q, "Update", "noop")
        /\ arg[q].wg
        /\ wgDone[q] = 1

\* C20: a Get that returns a connection, found by the hint or selected by
\* the balancer, returns one on which neither Remove nor Close has invoked
\* Close by the time the Get returns.
C20_GetReturnsOpenConn ==
    [][\A p \in Procs :
        (Leaves(p, "get_body") /\ res'[p].kind = "ok")
            => /\ res'[p].conn # NilConn
               /\ closeCnt'[res'[p].conn] = 0]_vars

\* C20 witness: a Remove has closed the connection it took out, and a Get
\* has returned another connection, which is not closed.
C20_Witness ==
    \E p, q \in Procs :
        /\ Ended(q, "Remove", "ok")
        /\ closeCnt[loc[q].conn] = 1
        /\ Ended(p, "Get", "ok")
        /\ res[p].conn # loc[q].conn
        /\ closeCnt[res[p].conn] = 0

\* C19: once the registry is closed and no call is in flight, every
\* connection that an Insert has built has been closed.
C19_NoConnLost ==
    (closed /\ \A p \in Procs : pc[p] \in {"idle", "done"})
        => \A c \in 1..(nextConn - 1) : closeCnt[c] >= 1

\* C11: in the scenario of four Inserts and three Pessimizes with a trigger,
\* Force is invoked by the counting step of the third Pessimize, three
\* entries being Banned, and by no other step; when the seven calls have
\* ended it has been invoked once.
C11_ForceAtThirdPessimize ==
    [][/\ forceCalls' # forceCalls
            => /\ forceCalls = 0
               /\ forceCalls' = 1
               /\ calls = 7
               /\ BannedCount = 3
               /\ \E p \in Procs : Leaves(p, "pes_count")
       /\ (calls' = 7 /\ \A p \in Procs : pc'[p] \in {"idle", "done"})
            => forceCalls' = 1]_vars

\* C11 witness: the seven calls have ended, four entries are in, three of
\* them Banned, and Force has been invoked once.
C11_Witness ==
    /\ calls = 7
    /\ \A p \in Procs : pc[p] \in {"idle", "done"}
    /\ \E p \in Procs : Ended(p, "Pessimize", "ok")
    /\ Cardinality(DOMAIN index) = 4
    /\ BannedCount = 3
    /\ explorer
    /\ forceCalls = 1

\* The number of calls of f whose indices satisfy Q.
Emitted(f, Q(_, _)) ==
    Cardinality({k \in 1..Len(diff.events) :
                    diff.events[k].f = f
                    /\ Q(diff.events[k].i, diff.events[k].j)})

\* The NodeIDs of a list.
IDsOf(list) == {list[k].ID : k \in 1..Len(list)}

\* C17: when DiffEndpoints has returned for two lists strictly ascending
\* by NodeID, eq was called once for each pair of positions with the same
\* NodeID, del once for each position of curr whose NodeID next lacks, add
\* once for each position of next whose NodeID curr lacks, and there was no
\* other call.
C17_DiffEmitsExactly ==
    DiffReturned =>
        LET A == diff.curr
            B == diff.next
            Same == {ij \in (1..Len(A)) \X (1..Len(B)) : A[ij[1]].ID = B[ij[2]].ID}
            Gone == {i \in 1..Len(A) : A[i].ID \notin IDsOf(B)}
            New == {j \in 1..Len(B) : B[j].ID \notin IDsOf(A)}
        IN  /\ \A ij \in Same :
                LET At(i, j) == i = ij[1] - 1 /\ j = ij[2] - 1
                IN  Emitted("eq", At) = 1
            /\ \A i0 \in Gone :
                LET At(i, j) == i = i0 - 1
                IN  Emitted("del", At) = 1
            /\ \A j0 \in New :
                LET At(i, j) == j = j0 - 1
                IN  Emitted("add", At) = 1
            /\ Len(diff.events) =
                    Cardinality(Same) + Cardinality(Gone) + Cardinality(New)

\* C18: no gate that await has made is closed twice; and once the registry
\* is closed and no call is in flight, the gate that an await has returned
\* to its caller has been closed.
C18_GatesReleased ==
    /\ \A g \in DOMAIN gates : gates[g] <= 1
    /\ (closed /\ \A p \in Procs : pc[p] \in {"idle", "done"})
        => \A p \in Procs :
            (Ended(p, "Await", "ok") /\ loc[p].gate # NilWait)
                => gates[loc[p].gate] = 1
====
